---- MODULE Spec2Model ----
(***************************************************************************)
(* RPG Maker Set Manager: the grid of cell images (app.images), the scene  *)
(* that shows them, the undo / redo history and the worker guard           *)
(* (app.thread_running), as implemented by grid_manager.py,                *)
(* image_manipulation.py, graphics_view.py, files.py, utils.py and the     *)
(* slider classes.                                                         *)
(*                                                                         *)
(* Modelling conventions                                                   *)
(*  - A picture is a number: 0 is a fully transparent picture, 1..NPics    *)
(*    are distinct opaque pictures, Dim and Faint are pictures whose       *)
(*    highest alpha is just below and exactly the threshold.               *)
(*  - A QImage is a record [width, height, tiles]: tiles maps the index of *)
(*    a cell-sized tile of the image to the picture drawn there; a tile    *)
(*    that is not in the domain is transparent.  A null QImage (and        *)
(*    Python's None where an image is expected) has width = height = 0.    *)
(*  - A temp path is a sequence: << >> is None, <<img>> is the path of a   *)
(*    file that holds img.                                                 *)
(*  - A QGraphicsPixmapItem is an entry of items: its pixmap (a picture),  *)
(*    its position and whether it is in the scene.  Items that app.images  *)
(*    no longer references but that are still in the scene are kept in     *)
(*    ghosts.  Item numbers are renumbered after every handler (Canon), so *)
(*    that object identity is kept but the numbering is canonical.         *)
(*  - Every GUI handler is one atomic step; the steps of a worker thread   *)
(*    are separate steps.                                                  *)
(*  - raised, sync, before, drawn, exported and conv are history           *)
(*    variables: they record what the last handlers did and are read by    *)
(*    no handler; so are the index and the value kept with each entry of   *)
(*    app.modified_images.  disk_full and disk are the environment: the    *)
(*    temp directory, whether it still takes data and which of the         *)
(*    session's files it holds.                                            *)
(*  - icons.py, images.py and GraphicsView.py, which rewrite               *)
(*    grid_manager.py, files.py and graphics_view.py, are modelled for the *)
(*    functions that differ: has_pixel, icons.add, icons.remove and        *)
(*    icons.folder.  They call maths.origin with the column and the row    *)
(*    of a cell.                                                           *)
(***************************************************************************)
EXTENDS Integers, Sequences, FiniteSets, TLC

(* ------------------------------ bounds -------------------------------- *)
GridCol == 2
GridRow == 1
NPics == 2
MaxHistory == 2
MaxGhosts == 1
MaxFolder == 2
MaxModified == 2
MaxTemp == 2
MaxPixel == 95
MaxIndex == 3

(* ------------------------- program constants -------------------------- *)
cell_width == 32
cell_height == 32
AlphaThreshold == 25

VARIABLES
    images,              \* app.images: cell index -> item
    items,               \* the QGraphicsPixmapItems app.images references
    ghosts,              \* pixmap items in the scene that app.images lost
    weapons,             \* app.weapons: cell index -> its overlay picture
    config_type,         \* the Type entry of the configuration file
    exported,            \* << >>, or the image in the file the last handler
                         \* exported the grid to
    app_temp,            \* app.temp: how many file names it lists; the names
                         \* are 1, 2, ... in the order of their creation and
                         \* MaxTemp stands for every later one
    disk,                \* the temp files of the session that exist
    quit,                \* the application has quit
    conv,                \* << >>, or the last call of maths.index or
                         \* maths.origin: its argument and what it returned
    undo,                \* app.undo
    redo,                \* app.redo
    thread_running,      \* app.thread_running
    highlight_selected,  \* main_view.highlight_selected: << >> or <<index>>
    processor,           \* slider -> its worker thread
    modified_images,     \* app.modified_images: the pictures of the items,
                         \* each with the index its worker read and the
                         \* value its worker was given
    slider,              \* slider -> QSlider.value(), 0 for the value the
                         \* slider rests at
    copied_image,        \* app.copied_image: << >> while the attribute does
                         \* not exist, else <<the copied item's picture>>
    raised,              \* the exception the last handler ended with
    sync,                \* how many entries on top of app.undo were recorded
                         \* in an unbroken run of recordings, undos and redos
                         \* that ends in the current state
    before,              \* << >>, or what the cells held before the last
                         \* handler, if that was an undo or a SWITCH move
    disk_full,           \* the disk of the temp directory takes no more
                         \* data: QImage.save and QPixmap.save return False
    drawn                \* << >>, or the size of the image the last
                         \* add_to_grid or icons.add drew on its pixmap

vars == <<slider, images, items, ghosts, weapons, config_type, exported, conv,
          app_temp, disk, quit, undo,
          redo, thread_running,
          highlight_selected, processor, modified_images, copied_image,
          raised, sync, before, disk_full, drawn>>

(* ------------------------------ helpers ------------------------------- *)
Put(f, k, v) == [x \in (DOMAIN f) \cup {k} |-> IF x = k THEN v ELSE f[x]]

Del(f, k) == [x \in (DOMAIN f) \ {k} |-> f[x]]

Range(f) == {f[x] : x \in DOMAIN f}

SetMax(S) == CHOOSE x \in S : \A y \in S : y <= x

Pics == 1..NPics

Cells == (0..(GridCol - 1)) \X (0..(GridRow - 1))

\* Two pictures beside the opaque ones: the highest alpha among the pixels
\* of Dim is just below the threshold, that of Faint is the threshold.
Dim == NPics + 1

Faint == NPics + 2

\* The highest alpha among the pixels of a picture.
MaxAlpha(pic) ==
    IF pic = 0 THEN 0
    ELSE IF pic = Dim THEN AlphaThreshold - 1
    ELSE IF pic = Faint THEN AlphaThreshold
    ELSE 255

NullImage == [width |-> 0, height |-> 0, tiles |-> << >>]

IsNull(image) == image.width = 0 \/ image.height = 0

\* A cell-sized image showing one picture.
CellImage(pic) ==
    [width |-> cell_width, height |-> cell_height, tiles |-> (<<0, 0>> :> pic)]

\* QImage(temp): the image a temp file holds; null when temp is None or the
\* file holds no image.
QImage(temp) == IF temp = << >> THEN NullImage ELSE temp[1]

\* QImage.copy(x, y, cell_width, cell_height) at the origin of tile t.
Crop(image, t) == IF t \in DOMAIN image.tiles THEN image.tiles[t] ELSE 0

(* ------------------------------ maths.py ------------------------------ *)
cell_origin(index) == <<index[1] * cell_width, index[2] * cell_height>>

\* An index that names the cell whose origin is nearest.
cell_index_nearest(x, y) ==
    <<(x + cell_width \div 2) \div cell_width,
      (y + cell_height \div 2) \div cell_height>>

cell_index(x, y) == <<x \div cell_width, y \div cell_height>>

grid_col == GridCol

grid_row == GridRow

max_row(a) ==
    IF DOMAIN a.images # {} THEN SetMax({k[2] : k \in DOMAIN a.images}) ELSE -1

\* "Check if the cell is out of bounds": the test repeated in click_cell,
\* highlight_index, load and dropEvent.
OutOfBounds(index) ==
    LET origin == cell_origin(index)
        limit == cell_origin(<<grid_col - 1, grid_row - 1>>)
    IN \E n \in 1..2 : origin[n] < 0 \/ origin[n] > limit[n]

(* ------------------------------ utils.py ------------------------------ *)
\* has_valid_pixel that accepts every image.
has_any_pixel(image) == TRUE

has_valid_pixel(image) ==
    \E t \in DOMAIN image.tiles : MaxAlpha(image.tiles[t]) > AlphaThreshold

\* One entry of app.undo / app.redo.  Its index is kept as the sequence of
\* the cells it names: <<index>> for ADD and DELETE, <<index_a, index_b>>
\* for MOVE, << >> (None) for OVERHAUL.
Action(action_type, index, temp, move_type) ==
    [type |-> action_type,
     index |-> IF action_type \in {"ADD", "DELETE"} THEN <<index>> ELSE index,
     temp |-> temp, move_type |-> move_type]

history(a, action_type, index, temp, move_type) ==
    [a EXCEPT !.undo = Append(a.undo, Action(action_type, index, temp, move_type)),
              !.redo = << >>]

(* ------------------------------ files.py ------------------------------ *)
\* A create_temp that never writes a file.
create_temp_none(pic) == << >>

\* create_temp(app, item): the path of a file holding the item's pixmap.
create_temp(pic) ==
    IF ~has_valid_pixel(CellImage(pic)) THEN << >>
    ELSE IF disk_full THEN <<NullImage>>
    ELSE <<CellImage(pic)>>

\* The pixmap items of the scene, as [pixmap, pos] records: those of
\* app.images, those it lost, and those of the overlay layer.
SceneItems(a) ==
    {[pixmap |-> a.items[i].pixmap, pos |-> a.items[i].pos] :
        i \in {j \in 1..Len(a.items) : a.items[j].scene}} \cup a.ghosts
        \cup {[pixmap |-> a.weapons[k], pos |-> cell_origin(k)] :
                 k \in DOMAIN a.weapons}

\* create_temp_all(app): the images the composite of the scene can be.  The
\* pixmap is grid_col cells wide and max_row + 1 cells high; every pixmap item
\* of the scene is painted at its position.  Where several items overlap the
\* one painted last shows; the paint order is Qt's stacking order, which is
\* not modelled: any of the overlapping items may show.
create_temp_all(a) ==
    LET rows == max_row(a) + 1
        area == (0..(grid_col - 1)) \X (0..(rows - 1))
        at(t) == {s.pixmap : s \in {g \in SceneItems(a) : g.pos = cell_origin(t)}}
        painted == {t \in area : at(t) # {}}
    IN IF rows = 0 \/ disk_full
       THEN {<<NullImage>>}
       ELSE {<<[width |-> grid_col * cell_width, height |-> rows * cell_height,
                tiles |-> f]>> :
                f \in {g \in [painted -> Pics] : \A t \in painted : g[t] \in at(t)}}

\* save_all_together(app): the image in the file the grid is exported to.
\* type is the Type entry of the configuration, file_path tells whether the
\* file dialog returned a path.  The pixmap is grid_col cells wide and, for
\* the type Icons, max_row cells high, for every other type grid_row cells
\* high; every pixmap item of the scene is painted at its position, and what
\* lies outside the pixmap is cut off.  A pixmap without rows is null and
\* its file holds no image.
save_all_together(a, type, file_path) ==
    LET rows == IF type = "Icons" THEN max_row(a) ELSE grid_row
        area == (0..(grid_col - 1)) \X (0..(rows - 1))
        at(t) == {s.pixmap : s \in {g \in SceneItems(a) : g.pos = cell_origin(t)}}
        painted == {t \in area : at(t) # {}}
    IN IF DOMAIN a.images = {} \/ ~file_path THEN {a}
       ELSE IF rows <= 0 \/ disk_full
       THEN {[a EXCEPT !.exported = <<NullImage>>]}
       ELSE {[a EXCEPT !.exported =
                 <<[width |-> grid_col * cell_width, height |-> rows * cell_height,
                    tiles |-> f]>>] :
                f \in {g \in [painted -> Pics] : \A t \in painted : g[t] \in at(t)}}

\* A registration that leaves app.temp as it is.
register_nothing(a, temp_path) ==
    IF temp_path = << >> THEN a
    ELSE [a EXCEPT !.disk = @ \cup {IF a.temp < MaxTemp THEN a.temp + 1 ELSE MaxTemp}]

\* "with tempfile.NamedTemporaryFile(suffix=".png", delete=False) as temp:
\*  app.temp.append(temp.name)" of create_temp and create_temp_all, for the
\* path they return: None (<< >>) when no file was made.
register(a, temp_path) ==
    IF temp_path = << >> THEN a
    ELSE [a EXCEPT !.temp = IF @ < MaxTemp THEN @ + 1 ELSE MaxTemp,
                   !.disk = @ \cup {IF a.temp < MaxTemp THEN a.temp + 1 ELSE MaxTemp}]

(* --------------------------- grid_manager.py -------------------------- *)
Min(x, y) == IF x < y THEN x ELSE y

Max(x, y) == IF x > y THEN x ELSE y

\* QGraphicsPixmapItem(pixmap); setPos(cell_origin(index)); scene.addItem;
\* app.images[index] = item.
PlaceItem(a, pic, index) ==
    [a EXCEPT !.items = Append(@, [pixmap |-> pic, pos |-> cell_origin(index),
                                   scene |-> TRUE]),
              !.images = Put(@, index, Len(a.items) + 1)]

\* A removal that forgets "del app.images[index]".
TakeItemKeepKey(a, index) ==
    [a EXCEPT !.items[a.images[index]].scene = FALSE]

\* scene.removeItem(app.images[index]); del app.images[index].
TakeItem(a, index) ==
    [a EXCEPT !.items[a.images[index]].scene = FALSE,
              !.images = Del(@, index)]

highlight_index(a, index) ==
    IF OutOfBounds(index) THEN a ELSE [a EXCEPT !.highlight_selected = <<index>>]

\* A remove_from_grid that forgets "return temp_path".
remove_from_grid_no_return(a, index, hist) ==
    IF a.thread_running THEN [app |-> a, ret |-> << >>]
    ELSE IF index \notin DOMAIN a.images THEN [app |-> a, ret |-> << >>]
    ELSE LET temp_path == create_temp(a.items[a.images[index]].pixmap)
             a1 == TakeItem(register(a, temp_path), index)
         IN [app |-> IF hist THEN history(a1, "DELETE", index, temp_path, "None")
                     ELSE a1,
             ret |-> << >>]

\* Returns [app, ret]: the application afterwards and the returned temp path.
remove_from_grid(a, index, hist) ==
    IF a.thread_running THEN [app |-> a, ret |-> << >>]
    ELSE IF index \notin DOMAIN a.images THEN [app |-> a, ret |-> << >>]
    ELSE LET temp_path == create_temp(a.items[a.images[index]].pixmap)
             a1 == TakeItem(register(a, temp_path), index)
         IN [app |-> IF hist THEN history(a1, "DELETE", index, temp_path, "None")
                     ELSE a1,
             ret |-> temp_path]

\* QImage.scaled that keeps the ratio of the image's sides.
scaled_keep_ratio(image, w, h) ==
    IF w = image.width /\ h = image.height THEN image
    ELSE [width |-> w,
          height |-> IF w # image.width THEN (image.height * w) \div image.width
                     ELSE h,
          tiles |-> (<<0, 0>> :> SetMax(Range(image.tiles) \cup {0}))]

\* QImage.scaled(w, h): smooth scaling blends the tiles into one picture, which
\* is identified with the highest-numbered picture of the source.
scaled(image, w, h) ==
    IF w = image.width /\ h = image.height THEN image
    ELSE [width |-> w, height |-> h,
          tiles |-> (<<0, 0>> :> SetMax(Range(image.tiles) \cup {0}))]

add_to_grid(a, image, index, hist) ==
    IF IsNull(image) THEN a
    ELSE IF ~has_valid_pixel(image) THEN a
    ELSE LET r == remove_from_grid(a, index, FALSE)
             image1 == IF image.width > cell_width
                       THEN scaled(image, cell_width, image.height) ELSE image
             image2 == IF image1.height > cell_height
                       THEN scaled(image1, image1.width, cell_height) ELSE image1
             a1 == [PlaceItem(r.app, Crop(image2, <<0, 0>>), index)
                      EXCEPT !.drawn = <<[width |-> image2.width,
                                          height |-> image2.height]>>]
         IN IF hist THEN history(a1, "ADD", index, r.ret, "None") ELSE a1

clear_main_view(a) ==
    IF a.thread_running THEN a
    ELSE [a EXCEPT !.items = [i \in DOMAIN a.items |->
                                 [a.items[i] EXCEPT !.scene = FALSE]],
                   !.ghosts = {},
                   !.images = << >>,
                   !.weapons = << >>]

\* new(app); response is the button of the confirmation popup.
new(a, response) ==
    IF a.thread_running THEN a
    ELSE IF response # "&Yes" THEN a
    ELSE [clear_main_view(a) EXCEPT !.highlight_selected = << >>,
                                    !.undo = << >>,
                                    !.redo = << >>]

\* The double loop of load, cell n of grid_col * nrows cells, column first.
RECURSIVE LoadCells(_, _, _, _, _)
LoadCells(a, image, index, nrows, n) ==
    IF n >= grid_col * nrows THEN a
    ELSE LET column == n \div nrows
             row == n % nrows
             crop_image == CellImage(Crop(image, <<column, row>>))
             cell == IF index # << >>
                     THEN <<column + index[1], row + index[2]>>
                     ELSE <<column, row>>
             a1 == IF ~has_valid_pixel(crop_image) \/ OutOfBounds(cell) THEN a
                   ELSE PlaceItem(IF cell \in DOMAIN a.images
                                  THEN TakeItem(a, cell) ELSE a,
                                  Crop(image, <<column, row>>), cell)
         IN LoadCells(a1, image, index, nrows, n + 1)

\* load(app, image, history, reset, index).  prompted is what
\* files.prompt_file returns if it is asked; snap is the path create_temp_all
\* returns if it is called.
load(a, image0, hist, reset, index, prompted, snap) ==
    IF a.thread_running THEN a
    ELSE LET image == IF IsNull(image0) THEN prompted ELSE image0 IN
         IF IsNull(image) THEN a
         ELSE LET a1 == IF hist /\ DOMAIN a.images # {}
                        THEN history(register(a, snap), "OVERHAUL", << >>, snap, "None")
                        ELSE a
                  a2 == IF reset THEN clear_main_view(a1) ELSE a1
                  nrows == Max(Min(image.height \div cell_height + 1, grid_row), 1)
              IN LoadCells(a2, image, index, nrows, 0)

add_after(a, prompted, snap) ==
    IF a.thread_running THEN a
    ELSE load(a, NullImage, TRUE, FALSE, <<0, max_row(a) + 1>>, prompted, snap)

\* The loop of load_folder from file n on; files is the sorted list of the
\* pictures in the folder, col and row the loop's counters.
RECURSIVE FolderLoop(_, _, _, _, _)
FolderLoop(a, files, n, col, row) ==
    IF n > Len(files) THEN a
    ELSE LET wrap == ((n - 1) % grid_col = 0)
             row1 == IF wrap THEN row + 1 ELSE row
             col1 == IF wrap THEN 0 ELSE col
         IN IF row1 > grid_row + 1 THEN a
            ELSE IF ~has_valid_pixel(CellImage(files[n])) THEN a
            ELSE FolderLoop(PlaceItem(a, files[n], <<col1, row1>>),
                            files, n + 1, col1 + 1, row1)

load_folder(a, files, snap) ==
    IF a.thread_running THEN a
    ELSE IF Len(files) <= 0 THEN a
    ELSE LET a1 == IF DOMAIN a.images # {}
                   THEN history(register(a, snap), "OVERHAUL", << >>, snap, "None")
                   ELSE a
         IN FolderLoop(a1, files, 1, 0, max_row(a))

(* ------------------------ image_manipulation.py ----------------------- *)
Raise(a, exception) == [a EXCEPT !.raised = exception]

\* item.setPos(pos)
SetPos(a, item, pos) == [a EXCEPT !.items[item].pos = pos]

\* The exchange of a SWITCH move, as written in mouseReleaseEvent, undo and
\* redo: item_a and item_b are read first, then each one that exists is
\* moved to the other cell and stored under the other index.
Switch(a, index_a, index_b) ==
    LET has_a == index_a \in DOMAIN a.images
        has_b == index_b \in DOMAIN a.images
        a1 == IF has_a
              THEN [SetPos(a, a.images[index_a], cell_origin(index_b))
                       EXCEPT !.images = Put(@, index_b, a.images[index_a])]
              ELSE a
    IN IF has_b
       THEN [SetPos(a1, a.images[index_b], cell_origin(index_a))
                EXCEPT !.images = Put(@, index_a, a.images[index_b])]
       ELSE a1

Top(stack) == stack[Len(stack)]

Pop(stack) == SubSeq(stack, 1, Len(stack) - 1)

\* "if temp: grid_manager.load(app, QImage(temp), False, True)
\*  else: grid_manager.clear_main_view(app)"
Overhaul(a, temp, prompted) ==
    IF temp # << >>
    THEN load(a, QImage(temp), FALSE, TRUE, << >>, prompted, << >>)
    ELSE clear_main_view(a)

\* undo(app).  prompted: what files.prompt_file returns if load asks for a
\* file; snap: the path create_temp_all returns if it is called.
Undo(a, prompted, snap) ==
    IF a.undo = << >> THEN a
    ELSE LET last_action == Top(a.undo)
             index == IF last_action.type \in {"ADD", "DELETE"}
                      THEN last_action.index[1] ELSE last_action.index
             temp == last_action.temp
             a0 == [a EXCEPT !.undo = Pop(@)]
         IN CASE last_action.type = "ADD" ->
                   IF index \notin DOMAIN a0.images THEN Raise(a0, "KeyError")
                   ELSE LET r == remove_from_grid(a0, index, FALSE)
                            a1 == IF temp # << >>
                                  THEN PlaceItem(r.app, Crop(QImage(temp), <<0, 0>>), index)
                                  ELSE r.app
                        IN highlight_index(
                              [a1 EXCEPT !.redo = Append(@, Action("ADD", index, r.ret, "None"))],
                              index)
              [] last_action.type = "DELETE" ->
                   LET a1 == add_to_grid(a0, QImage(temp), index, FALSE)
                   IN highlight_index(
                         [a1 EXCEPT !.redo = Append(@, Action("DELETE", index, << >>, "None"))],
                         index)
              [] last_action.type = "MOVE" /\ last_action.move_type = "SWITCH" ->
                   LET a1 == Switch(a0, index[1], index[2])
                   IN highlight_index(
                         [a1 EXCEPT !.redo = Append(@, Action("MOVE", index, << >>, "SWITCH"))],
                         index[1])
              [] last_action.type = "MOVE" /\ last_action.move_type = "OVERWRITE" ->
                   IF index[2] \notin DOMAIN a0.images THEN Raise(a0, "KeyError")
                   ELSE LET item == a0.images[index[2]]
                            a1 == [a0 EXCEPT !.images = Del(Put(@, index[1], item), index[2])]
                            a2 == SetPos(a1, item, cell_origin(index[1]))
                            a3 == IF temp # << >>
                                  THEN add_to_grid(a2, QImage(temp), index[2], FALSE)
                                  ELSE a2
                        IN highlight_index(
                              [a3 EXCEPT !.redo = Append(@, Action("MOVE", index, << >>, "OVERWRITE"))],
                              index[1])
              [] last_action.type = "OVERHAUL" ->
                   [Overhaul(register(a0, snap), temp, prompted)
                       EXCEPT !.redo = Append(@, Action("OVERHAUL", << >>, snap, "None"))]

\* redo(app), with prompted and snap as for Undo.
Redo(a, prompted, snap) ==
    IF a.redo = << >> THEN a
    ELSE LET last_action == Top(a.redo)
             index == IF last_action.type \in {"ADD", "DELETE"}
                      THEN last_action.index[1] ELSE last_action.index
             temp == last_action.temp
             a0 == [a EXCEPT !.redo = Pop(@)]
         IN CASE last_action.type = "ADD" ->
                   LET r == remove_from_grid(a0, index, FALSE)
                       a1 == add_to_grid(r.app, QImage(temp), index, FALSE)
                   IN highlight_index(
                         [a1 EXCEPT !.undo = Append(@, Action("ADD", index, r.ret, "None"))],
                         index)
              [] last_action.type = "DELETE" ->
                   LET r == remove_from_grid(a0, index, FALSE)
                   IN highlight_index(
                         [r.app EXCEPT !.undo = Append(@, Action("DELETE", index, r.ret, "None"))],
                         index)
              [] last_action.type = "MOVE" /\ last_action.move_type = "SWITCH" ->
                   IF index[1] \notin DOMAIN a0.images \/ index[2] \notin DOMAIN a0.images
                   THEN Raise(a0, "KeyError")
                   ELSE LET a1 == Switch(a0, index[1], index[2])
                        IN highlight_index(
                              [a1 EXCEPT !.undo = Append(@, Action("MOVE", index, << >>, "SWITCH"))],
                              index[2])
              [] last_action.type = "MOVE" /\ last_action.move_type = "OVERWRITE" ->
                   LET r == remove_from_grid(a0, index[2], FALSE)
                   IN IF index[1] \notin DOMAIN r.app.images THEN Raise(r.app, "KeyError")
                      ELSE LET item == r.app.images[index[1]]
                               a1 == SetPos(r.app, item, cell_origin(index[2]))
                               a2 == [a1 EXCEPT !.images = Del(Put(@, index[2], item), index[1])]
                           IN highlight_index(
                                 [a2 EXCEPT !.undo = Append(@, Action("MOVE", index, r.ret, "OVERWRITE"))],
                                 index[2])
              [] last_action.type = "OVERHAUL" ->
                   [Overhaul(register(a0, snap), temp, prompted)
                       EXCEPT !.undo = Append(@, Action("OVERHAUL", << >>, snap, "None"))]

(* ------------------------------ the state ----------------------------- *)
\* The application as the handlers see it when they are called.
App ==
    [slider |-> slider, images |-> images, items |-> items, ghosts |-> ghosts,
     weapons |-> weapons, exported |-> << >>, temp |-> app_temp,
     disk |-> disk,
     undo |-> undo,
     redo |-> redo, thread_running |-> thread_running,
     highlight_selected |-> highlight_selected, raised |-> "none",
     drawn |-> drawn]

Rank(k) == k[2] * grid_col + k[1]

\* The same objects with canonical item numbers: the items app.images
\* references, in the order of the first cell that references them; the
\* items of the scene it no longer references become ghosts.
Canon(a) ==
    LET used == Range(a.images)
        first(i) == CHOOSE r \in {Rank(k) : k \in {x \in DOMAIN a.images : a.images[x] = i}} :
                       \A k \in {x \in DOMAIN a.images : a.images[x] = i} : r <= Rank(k)
        number(i) == Cardinality({j \in used : first(j) < first(i)}) + 1
        lost == {i \in 1..Len(a.items) : i \notin used /\ a.items[i].scene}
    IN [a EXCEPT !.items = [n \in 1..Cardinality(used) |->
                               a.items[CHOOSE i \in used : number(i) = n]],
                 !.images = [k \in DOMAIN a.images |-> number(a.images[k])],
                 !.ghosts = @ \cup {[pixmap |-> a.items[i].pixmap,
                                     pos |-> a.items[i].pos] : i \in lost}]

\* What each cell shows: the picture of the item app.images holds for it.
Content(a) == [k \in DOMAIN a.images |-> a.items[a.images[k]].pixmap]

Stored == Content(App)

\* The handlers whose effect app.undo is meant to record.
Recording ==
    {"drop", "double_click", "delete", "cut", "paste", "flip", "move",
     "switch", "open", "add_after", "load_folder", "slider_end"}

NextSync(a, cmd) ==
    IF cmd \in {"click", "copy", "change", "processed", "save"} THEN sync
    ELSE IF a.raised # "none" THEN 0
    ELSE IF cmd = "undo" THEN (IF undo = << >> THEN sync ELSE Max(sync - 1, 0))
    ELSE IF cmd = "redo" THEN (IF redo = << >> THEN sync ELSE sync + 1)
    ELSE IF cmd \in Recording
    THEN (IF Len(a.undo) = Len(undo) + 1 THEN sync + 1
          ELSE IF a.images = images /\ a.items = items THEN sync ELSE 0)
    ELSE 0

\* The end of a handler: the state it leaves, and the record of the call.
\* before holds the content the handler found if it was an undo that popped
\* an entry or a SWITCH move, and nothing after any other handler.
Step(a0, cmd, index) ==
    /\ before' = IF (cmd = "undo" /\ undo # << >>) \/ cmd = "switch"
                 THEN <<[cmd |-> cmd, index |-> index, stored |-> Stored]>>
                 ELSE << >>
    /\ disk_full' = disk_full
    /\ drawn' = a0.drawn
    /\ weapons' = a0.weapons
    /\ exported' = a0.exported
    /\ config_type' = config_type
    /\ conv' = conv
    /\ slider' = a0.slider
    /\ app_temp' = a0.temp
    /\ disk' = a0.disk
    /\ quit' = quit
    /\ \E a \in {a0} :
       \E c \in {Canon(a)} :
          /\ Len(c.undo) + Len(c.redo) <= MaxHistory
          /\ Cardinality(c.ghosts) <= MaxGhosts
          /\ highlight_selected' = c.highlight_selected
          /\ images' = c.images
          /\ items' = c.items
          /\ ghosts' = c.ghosts
          /\ undo' = c.undo
          /\ redo' = c.redo
          /\ raised' = c.raised
          /\ sync' = NextSync(a, cmd)

\* The sliders of the HSV panel that share app.modified_images.
Sliders == {"Hue", "Saturation"}

\* The state after MainWindow.__init__ with a configuration of the given type.
Start(type) ==
    /\ config_type = type
    /\ exported = << >>
    /\ conv = << >>
    /\ app_temp = 0
    /\ disk = {}
    /\ quit = FALSE
    /\ images = << >>
    /\ items = << >>
    /\ ghosts = {}
    /\ weapons = << >>
    /\ undo = << >>
    /\ redo = << >>
    /\ thread_running = FALSE
    /\ highlight_selected = << >>
    /\ processor = [s \in Sliders |-> [state |-> "idle", emitted |-> << >>]]
    /\ modified_images = << >>
    /\ slider = [s \in Sliders |-> 0]
    /\ copied_image = << >>
    /\ raised = "none"
    /\ sync = 0
    /\ before = << >>
    /\ disk_full = FALSE
    /\ drawn = << >>

\* The configuration file as create_config writes it: Type is Icons.
Init == Start("Icons")

(* ------------------------------- inputs ------------------------------- *)
Sheet(rows, tiles) ==
    [width |-> grid_col * cell_width, height |-> rows * cell_height, tiles |-> tiles]

\* The image files the user opens or drops: single cells (picture 0 has no
\* valid pixel) and sheets.
CellFiles == {CellImage(p) : p \in 0..NPics}

Files ==
    CellFiles
        \cup {Sheet(grid_row, (<<0, 0>> :> NPics) @@ (<<grid_col - 1, grid_row - 1>> :> 1))}

\* The image files of one cell: transparent, opaque, and those whose pixels
\* are all nearly transparent.
FaintFiles == {CellImage(p) : p \in 0..Faint}

\* Image files of picture 1 that are narrower, as wide as and wider than a
\* cell, and lower, as high as and higher than a cell.
SizedFiles ==
    {[width |-> w, height |-> h, tiles |-> (<<0, 0>> :> 1)] :
        w \in {cell_width \div 2, cell_width, cell_width + cell_width \div 2},
        h \in {cell_height \div 2, cell_height, cell_height + cell_height \div 2}}

\* files.prompt_file: a file, or None when the dialog is cancelled.
Prompted == Files \cup {NullImage}

\* files.prompt_folder: the pictures of the folder's files, in sorted order.
Folders == {f \in UNION {[1..n -> 0..NPics] : n \in 0..MaxFolder} :
               \A n \in 1..Len(f) : f[n] <= n}

\* Where the mouse can be: the cells of the grid and one cell beside it.
Pointed == Cells \cup {<<grid_col, 0>>}

SliderValues == {1}

\* The values a slider reports while it is dragged.
DragValues == {1, 2}

\* QImage.transformed with a mirroring transform: the mirror picture.
Mirror(pic) == NPics + 1 - pic

\* HsvProcessor.run: the picture with its hue set to value.
Recolor(pic, value) == ((pic + value - 1) % NPics) + 1

(* --------------------------- graphics_view.py ------------------------- *)
\* mouseReleaseEvent, left button without a rubber band: click_cell.
click_cell(index) ==
    /\ ~thread_running
    /\ index \in Pointed
    /\ Step(highlight_index(App, index), "click", index)
    /\ UNCHANGED <<thread_running, processor, modified_images, copied_image>>

dropEvent(index, image) ==
    /\ ~thread_running
    /\ index \in Pointed
    /\ ~OutOfBounds(index)
    /\ image \in Files \cup FaintFiles
    /\ \E snap \in (IF image.width <= cell_width /\ image.height <= cell_height
                    THEN {<< >>} ELSE create_temp_all(App)) :
          Step(IF image.width <= cell_width /\ image.height <= cell_height
               THEN add_to_grid(App, image, index, TRUE)
               ELSE load(App, image, TRUE, FALSE, index, NullImage, snap),
               IF image.width <= cell_width /\ image.height <= cell_height
               THEN "drop" ELSE "open", index)
    /\ UNCHANGED <<thread_running, processor, modified_images, copied_image>>

mouseDoubleClickEvent(image) ==
    /\ ~thread_running
    /\ image \in Prompted \cup SizedFiles
    /\ Step(IF IsNull(image) THEN App
            ELSE IF ~has_valid_pixel(image) THEN App
            ELSE IF highlight_selected = << >> THEN Raise(App, "TypeError")
            ELSE add_to_grid(App, image, highlight_selected[1], TRUE),
            "double_click", highlight_selected)
    /\ UNCHANGED <<thread_running, processor, modified_images, copied_image>>

\* keyPressEvent with the Delete key.
keyPressEvent ==
    /\ ~thread_running
    /\ highlight_selected # << >>
    /\ Step(remove_from_grid(App, highlight_selected[1], TRUE).app,
            "delete", highlight_selected[1])
    /\ UNCHANGED <<thread_running, processor, modified_images, copied_image>>

\* mouseMoveEvent: "Get the current cell index and clamp it within the grid
\* bounds".
Clamp(index) ==
    <<Min(Max(index[1], 0), grid_col - 1), Min(Max(index[2], 0), grid_row - 1)>>

\* mousePressEvent, mouseMoveEvent and mouseReleaseEvent with the right
\* button: the item shown at cell index_a is dragged to where the pointer
\* is and released there, with Shift held (SWITCH) or not (OVERWRITE);
\* index_b is the cell mouseMoveEvent makes of the pointer's position.
mouseReleaseEvent(index_a, pointed, shift) ==
    /\ ~thread_running
    /\ index_a \in Cells /\ pointed \in Pointed /\ index_a # Clamp(pointed)
    /\ \E drag_item \in Range(images) :
          /\ items[drag_item].scene
          /\ items[drag_item].pos = cell_origin(index_a)
          /\ LET index_b == Clamp(pointed)
                 a0 == SetPos(App, drag_item, cell_origin(index_b))
                 r == remove_from_grid(a0, index_b, FALSE)
                 a1 == [r.app EXCEPT !.images = Put(@, index_b, drag_item)]
             IN Step(IF shift
                     THEN history(Switch(a0, index_a, index_b),
                                  "MOVE", <<index_a, index_b>>, << >>, "SWITCH")
                     ELSE IF index_a \notin DOMAIN a1.images
                     THEN Raise(a1, "KeyError")
                     ELSE history([a1 EXCEPT !.images = Del(@, index_a)],
                                  "MOVE", <<index_a, index_b>>, r.ret, "OVERWRITE"),
                     IF shift THEN "switch" ELSE "move", <<index_a, index_b>>)
    /\ UNCHANGED <<thread_running, processor, modified_images, copied_image>>

(* ------------------------ image_manipulation.py ----------------------- *)
\* copy: app.copied_image becomes the item of the selected cell, if it
\* holds one.  MainWindow creates no such attribute (it creates
\* copied_images), so it exists only after the first copy.
copy ==
    /\ highlight_selected # << >>
    /\ copied_image' = IF highlight_selected[1] \in DOMAIN images
                       THEN <<items[images[highlight_selected[1]]].pixmap>>
                       ELSE copied_image
    /\ Step(App, "copy", highlight_selected[1])
    /\ UNCHANGED <<thread_running, processor, modified_images>>

\* cut: copy, then remove_from_grid(app, index, True).
cut ==
    /\ highlight_selected # << >>
    /\ highlight_selected[1] \in DOMAIN images
    /\ copied_image' = <<items[images[highlight_selected[1]]].pixmap>>
    /\ Step(remove_from_grid(App, highlight_selected[1], TRUE).app,
            "cut", highlight_selected[1])
    /\ UNCHANGED <<thread_running, processor, modified_images>>

\* paste: add_to_grid(app, app.copied_image, index).
paste ==
    /\ highlight_selected # << >>
    /\ Step(IF copied_image = << >> THEN Raise(App, "AttributeError")
            ELSE add_to_grid(App, CellImage(copied_image[1]),
                             highlight_selected[1], TRUE),
            "paste", highlight_selected[1])
    /\ UNCHANGED <<thread_running, processor, modified_images, copied_image>>

flip_image ==
    /\ highlight_selected # << >>
    /\ highlight_selected[1] \in DOMAIN images
    /\ Step(add_to_grid(App,
                        CellImage(Mirror(items[images[highlight_selected[1]]].pixmap)),
                        highlight_selected[1], TRUE),
            "flip", highlight_selected[1])
    /\ UNCHANGED <<thread_running, processor, modified_images, copied_image>>

\* What files.prompt_file can return when undo or redo runs: the dialog
\* opens only if the entry on top of the stack is an OVERHAUL whose file
\* holds a null image.
PromptedBy(stack) ==
    IF stack # << >> /\ Top(stack).type = "OVERHAUL" /\ Top(stack).temp # << >>
          /\ IsNull(QImage(Top(stack).temp))
    THEN Prompted ELSE {NullImage}

\* What files.create_temp_all returns when undo or redo runs: it is called
\* only for an OVERHAUL entry.
SnapshotBy(stack) ==
    IF stack # << >> /\ Top(stack).type = "OVERHAUL"
    THEN create_temp_all(App) ELSE {<< >>}

\* Edit > Undo
EditUndo ==
    /\ \E prompted \in PromptedBy(undo), snap \in SnapshotBy(undo) :
          Step(Undo(App, prompted, snap), "undo", << >>)
    /\ UNCHANGED <<thread_running, processor, modified_images, copied_image>>

\* Edit > Redo
EditRedo ==
    /\ \E prompted \in PromptedBy(redo), snap \in SnapshotBy(redo) :
          Step(Redo(App, prompted, snap), "redo", << >>)
    /\ UNCHANGED <<thread_running, processor, modified_images, copied_image>>

(* ------------------------------- misc.py ------------------------------ *)
\* toolbar New: grid_manager.clear_main_view(app)
ToolbarNew ==
    /\ Step(clear_main_view(App), "toolbar_new", << >>)
    /\ UNCHANGED <<thread_running, processor, modified_images, copied_image>>

\* toolbar Open: grid_manager.load(app, None, True, True, None)
ToolbarOpen ==
    /\ \E prompted \in Prompted, snap \in create_temp_all(App) :
          Step(load(App, NullImage, TRUE, TRUE, << >>, prompted, snap), "open", << >>)
    /\ UNCHANGED <<thread_running, processor, modified_images, copied_image>>

\* toolbar Add After
ToolbarAddAfter ==
    /\ \E prompted \in Prompted, snap \in create_temp_all(App) :
          Step(add_after(App, prompted, snap), "add_after", << >>)
    /\ UNCHANGED <<thread_running, processor, modified_images, copied_image>>

\* toolbar Load Folder, with the folder files.prompt_folder returns.
LoadFolder(files) ==
    /\ \E snap \in create_temp_all(App) :
          Step(load_folder(App, files, snap), "load_folder", << >>)
    /\ UNCHANGED <<thread_running, processor, modified_images, copied_image>>

ToolbarLoadFolder == \E files \in Folders : LoadFolder(files)

\* File > Save All Together, with or without a path from the file dialog.
FileSaveAll ==
    /\ \E file_path \in BOOLEAN :
       \E a \in save_all_together(App, config_type, file_path) :
          Step(a, "save", << >>)
    /\ UNCHANGED <<thread_running, processor, modified_images, copied_image>>

\* File > New: grid_manager.new(app), with the answer to its question.
MenuNewAnswered(response) ==
    /\ Step(new(App, response), "new", << >>)
    /\ UNCHANGED <<thread_running, processor, modified_images, copied_image>>

MenuNew == \E response \in {"&Yes", "&No"} : MenuNewAnswered(response)

\* File > Open: grid_manager.load(app)
MenuOpen ==
    /\ \E prompted \in Prompted, snap \in create_temp_all(App) :
          Step(load(App, NullImage, TRUE, FALSE, << >>, prompted, snap), "open", << >>)
    /\ UNCHANGED <<thread_running, processor, modified_images, copied_image>>

(* ---------------------------- sliders_hsv.py -------------------------- *)
\* HueSlider.change_hsv, the slot of valueChanged: starts a worker if a cell
\* is selected and the slider's worker is not running (is running: from
\* start() until run() has returned); otherwise the value is only shown.
\* A new worker is started once the result of the last one is delivered.
change_hsv(s, value) ==
    /\ processor[s].state = "idle" => processor[s].emitted = << >>
    /\ IF highlight_selected # << >> /\ processor[s].state = "idle"
       THEN /\ Len(modified_images) < MaxModified
            /\ processor' = [processor EXCEPT ![s] =
                  [state |-> "started", value |-> value, emitted |-> << >>]]
       ELSE processor' = processor
    /\ Step([App EXCEPT !.slider[s] = value], "change", s)
    /\ UNCHANGED <<thread_running, modified_images, copied_image>>

\* HsvProcessor.run, up to the read of the selected cell's image.
run_start(s) ==
    /\ processor[s].state = "started"
    /\ thread_running' = TRUE
    /\ processor' = [processor EXCEPT ![s] =
          [state |-> "running", value |-> processor[s].value, emitted |-> << >>,
           index |-> highlight_selected,
           image |-> IF highlight_selected # << >>
                        /\ highlight_selected[1] \in DOMAIN images
                     THEN items[images[highlight_selected[1]]].pixmap
                     ELSE 0]]
    /\ UNCHANGED <<slider, images, items, ghosts, weapons, config_type, exported, conv,
                   app_temp, disk, quit, undo,
                   redo, highlight_selected,
                   modified_images, copied_image, raised, sync, before,
                   disk_full, drawn>>

\* HsvProcessor.run, from there to its return: image_processed is emitted
\* unless there was no image.
run_end(s) ==
    /\ processor[s].state = "running"
    /\ processor' = [processor EXCEPT ![s] =
          [state |-> "idle",
           emitted |-> IF processor[s].image = 0 THEN << >>
                       ELSE <<[pixmap |-> Recolor(processor[s].image,
                                                  processor[s].value),
                               index |-> processor[s].index,
                               value |-> processor[s].value]>>]]
    /\ UNCHANGED <<slider, images, items, ghosts, weapons, config_type, exported, conv,
                   app_temp, disk, quit, undo,
                   redo, thread_running,
                   highlight_selected, modified_images, copied_image, raised,
                   sync, before, disk_full, drawn>>

\* HueSlider.on_image_processed, the slot of the queued signal.
on_image_processed(s) ==
    /\ processor[s].emitted # << >>
    /\ modified_images' = Append(modified_images, processor[s].emitted[1])
    /\ processor' = [processor EXCEPT ![s].emitted = << >>]
    /\ Step(App, "processed", s)
    /\ UNCHANGED <<thread_running, copied_image>>

\* HueSlider.on_slider_end and SaturationSlider.on_slider_end: they first
\* wait until the slider's own worker has finished.  image_processed is a
\* queued signal: a worker that finished before the release may not have
\* had its result delivered yet.  The saturation slider returns when no cell
\* is selected; the hue slider does not look.
on_slider_end(s) ==
    /\ processor[s].state = "idle"
    /\ thread_running' = FALSE
    /\ LET a == [App EXCEPT !.thread_running = FALSE, !.slider[s] = 0] IN
          IF s = "Saturation" /\ highlight_selected = << >>
          THEN Step(a, "slider_end", << >>) /\ UNCHANGED modified_images
          ELSE IF modified_images = << >>
          THEN Step(a, "slider_end", << >>) /\ UNCHANGED modified_images
          ELSE IF highlight_selected = << >>
          THEN Step(Raise(a, "TypeError"), "slider_end", << >>)
               /\ UNCHANGED modified_images
          ELSE Step(add_to_grid(a, CellImage(Top(modified_images).pixmap),
                                highlight_selected[1], TRUE),
                    "slider_end", highlight_selected[1])
               /\ modified_images' = << >>
    /\ UNCHANGED <<processor, copied_image>>

(* ------------------- images.py, icons.py, GraphicsView.py ------------- *)
\* The modules that replace grid_manager.py and graphics_view.py keep the
\* items in app.icons, which images stands for here, and the selected cell
\* in highlight_selected.
\* images.has_pixel: "any(pixel >= 25 for pixel in _alpha.getdata())".
has_pixel(image) ==
    \E t \in DOMAIN image.tiles : MaxAlpha(image.tiles[t]) >= AlphaThreshold

\* images.create_temp(app, item).
images_create_temp(pic) ==
    IF ~has_pixel(CellImage(pic)) THEN << >>
    ELSE IF disk_full THEN <<NullImage>>
    ELSE <<CellImage(pic)>>

\* icons.remove(app, index, history): the Action is recorded whether the
\* index held an item or not.
icons_remove(a, index, hist) ==
    LET held == index \in DOMAIN a.images
        temp_path == IF held THEN images_create_temp(a.items[a.images[index]].pixmap)
                     ELSE << >>
        a1 == IF held THEN TakeItem(register(a, temp_path), index) ELSE a
    IN [app |-> IF hist THEN history(a1, "DELETE", index, temp_path, "None")
                ELSE a1,
        ret |-> temp_path]

\* icons.add(app, image, index).
icons_add(a, image, index) ==
    IF ~has_pixel(image) THEN a
    ELSE LET r == icons_remove(a, index, FALSE)
             image1 == IF image.width > cell_width
                       THEN scaled(image, cell_width, image.height) ELSE image
             image2 == IF image1.height > cell_height
                       THEN scaled(image1, image1.width, cell_height) ELSE image1
             a1 == [PlaceItem(r.app, Crop(image2, <<0, 0>>), index)
                      EXCEPT !.drawn = <<[width |-> image2.width,
                                          height |-> image2.height]>>]
         IN history(a1, "ADD", index, r.ret, "None")

\* The loop of icons.folder from file n on (enumerate's index is n - 1);
\* col_i and row_i are the loop's counters.  maths.origin is called with the
\* column and the row of the cell as two arguments.
RECURSIVE icons_folder_loop(_, _, _, _, _)
icons_folder_loop(a, files, n, col_i, row_i) ==
    IF n > Len(files) THEN a
    ELSE LET wrap == (n % grid_col = 0)
             row1 == IF wrap THEN row_i + 1 ELSE row_i
             col1 == IF wrap THEN 0 ELSE col_i
         IN IF row1 > grid_row + 1 THEN a
            ELSE IF ~has_pixel(CellImage(files[n])) THEN a
            ELSE icons_folder_loop(PlaceItem(a, files[n], <<col1, row1>>),
                                   files, n + 1, col1 + 1, row1)

\* icons.folder(app); files is what select_folder returns, in sorted order,
\* snap the path images.create_temp_all returns if it is called.
icons_folder(a, files, snap) ==
    IF Len(files) <= 0 THEN a
    ELSE LET a1 == IF DOMAIN a.images # {}
                   THEN history(register(a, snap), "OVERHAUL", << >>, snap, "None")
                   ELSE a
         IN icons_folder_loop(a1, files, 1, 1, max_row(a) + 1)

\* The folder command of the rewritten modules.
IconsFolder(files) ==
    /\ \E snap \in create_temp_all(App) :
          Step(icons_folder(App, files, snap), "load_folder", << >>)
    /\ UNCHANGED <<thread_running, processor, modified_images, copied_image>>

\* GraphicsView.mouseDoubleClickEvent of GraphicsView.py; image is what
\* icons.select_file returns, null when the dialog is cancelled.
GraphicsView_mouseDoubleClickEvent(image) ==
    /\ image \in FaintFiles \cup {NullImage}
    /\ Step(IF IsNull(image) THEN App
            ELSE IF highlight_selected = << >> THEN Raise(App, "TypeError")
            ELSE icons_add(App, image, highlight_selected[1]),
            "double_click", highlight_selected)
    /\ UNCHANGED <<thread_running, processor, modified_images, copied_image>>

\* GraphicsView.keyPressEvent of GraphicsView.py with the Delete key.
GraphicsView_keyPressEvent ==
    /\ highlight_selected # << >>
    /\ Step(icons_remove(App, highlight_selected[1], TRUE).app,
            "delete", highlight_selected[1])
    /\ UNCHANGED <<thread_running, processor, modified_images, copied_image>>

(* ------------------------ the calls of maths.py ----------------------- *)
\* A call of maths.index with a pixel position.
maths_index(x, y) ==
    /\ conv' = <<[fn |-> "index", arg |-> <<x, y>>, ret |-> cell_index(x, y)]>>
    /\ UNCHANGED <<slider, images, items, ghosts, weapons, config_type, exported,
                   app_temp, disk, quit, undo,
                   redo, thread_running, highlight_selected, processor,
                   modified_images, copied_image, raised, sync, before,
                   disk_full, drawn>>

\* A call of maths.origin with an index.
maths_origin(index) ==
    /\ conv' = <<[fn |-> "origin", arg |-> index, ret |-> cell_origin(index)]>>
    /\ UNCHANGED <<slider, images, items, ghosts, weapons, config_type, exported,
                   app_temp, disk, quit, undo,
                   redo, thread_running, highlight_selected, processor,
                   modified_images, copied_image, raised, sync, before,
                   disk_full, drawn>>

(* -------------------------- creator/holder.py ------------------------- *)
\* add_weapon_layer(app, file_path, layer): the overlay items of the file's
\* cells, as pixmap items of the main scene.  With overlay items already
\* there it asks grid_manager for get_weapons, which does not exist.
add_weapon_layer(a, image) ==
    IF IsNull(image) THEN a
    ELSE IF DOMAIN a.weapons # {} THEN Raise(a, "AttributeError")
    ELSE LET nrows == Max(Min(image.height \div cell_height + 1, grid_row), 1)
             shown == {k \in (0..(grid_col - 1)) \X (0..(nrows - 1)) :
                          /\ has_valid_pixel(CellImage(Crop(image, k)))
                          /\ ~OutOfBounds(k)}
         IN [a EXCEPT !.weapons = [k \in shown |-> Crop(image, k)]]

\* A click on a file of the weapon tree view.
item_clicked(image) ==
    /\ Step(add_weapon_layer(App, image), "item_clicked", << >>)
    /\ UNCHANGED <<thread_running, processor, modified_images, copied_image>>

(* ------------------------------ teardown ------------------------------ *)
\* misc.delete_temp_files(app), connected to aboutToQuit: every file app.temp
\* lists is removed if it exists.
delete_temp_files ==
    /\ ~quit
    /\ disk' = disk \ (1..app_temp)
    /\ quit' = TRUE
    /\ UNCHANGED <<slider, images, items, ghosts, weapons, config_type, exported, conv,
                   app_temp, undo, redo, thread_running, highlight_selected,
                   processor, modified_images, copied_image, raised, sync,
                   before, disk_full, drawn>>

\* Something else than the program removes one of its temp files.
TempRemoved(name) ==
    /\ name \in disk
    /\ disk' = disk \ {name}
    /\ UNCHANGED <<slider, images, items, ghosts, weapons, config_type, exported, conv,
                   app_temp, quit, undo, redo, thread_running,
                   highlight_selected, processor, modified_images, copied_image,
                   raised, sync, before, disk_full, drawn>>

(* ------------------------------- the disk ----------------------------- *)
\* The disk of the temp directory fills up: from now on the temp files are
\* created but nothing can be written to them.
DiskFull ==
    /\ ~disk_full
    /\ disk_full' = TRUE
    /\ UNCHANGED <<slider, images, items, ghosts, weapons, config_type, exported, conv,
                   app_temp, disk, quit, undo,
                   redo, thread_running,
                   highlight_selected, processor, modified_images,
                   copied_image, raised, sync, before, drawn>>

(* --------------------------- specifications --------------------------- *)
\* An editing session: cells are added, deleted and dragged, and the
\* history is walked.
Next ==
    \/ \E index \in Pointed : click_cell(index)
    \/ \E index \in Pointed, image \in CellFiles : dropEvent(index, image)
    \/ keyPressEvent
    \/ \E index_a \in Cells, index_b \in Cells, shift \in BOOLEAN :
          mouseReleaseEvent(index_a, index_b, shift)
    \/ EditUndo
    \/ EditRedo

Spec == Init /\ [][Next]_vars

\* A session of loads: files and sheets are dropped and opened, cells are
\* deleted, the grid is cleared, and the history is walked.
NextLoad ==
    \/ \E index \in Pointed : click_cell(index)
    \/ \E index \in Pointed, image \in Files : dropEvent(index, image)
    \/ keyPressEvent
    \/ ToolbarOpen
    \/ MenuOpen
    \/ ToolbarNew
    \/ MenuNew
    \/ EditUndo
    \/ EditRedo

SpecLoad == Init /\ [][NextLoad]_vars

\* A session with the hue slider: the worker runs while the user goes on
\* adding cells and walking the history.  The slider is released before its
\* value changes a second time.
NextGuard ==
    \/ \E index \in Pointed : click_cell(index)
    \/ \E index \in Pointed, image \in CellFiles : dropEvent(index, image)
    \/ EditUndo
    \/ EditRedo
    \/ \E s \in {"Hue"}, value \in SliderValues :
          /\ modified_images = << >>
          /\ highlight_selected # << >> /\ processor[s].state = "idle"
          /\ change_hsv(s, value)
    \/ \E s \in {"Hue"} : run_start(s)
    \/ \E s \in {"Hue"} : run_end(s)
    \/ \E s \in {"Hue"} : on_image_processed(s)
    \/ \E s \in {"Hue"} : on_slider_end(s)

SpecGuard == Init /\ [][NextGuard]_vars

\* A session with the clipboard and the hue slider: the worker runs while
\* the user goes on with the commands on the selected cell.
NextClipboard ==
    \/ \E index \in Pointed : click_cell(index)
    \/ \E index \in Pointed, image \in CellFiles : dropEvent(index, image)
    \/ \E image \in Prompted : mouseDoubleClickEvent(image)
    \/ copy
    \/ cut
    \/ paste
    \/ flip_image
    \/ MenuNew
    \/ \E s \in {"Hue"}, value \in SliderValues :
          /\ highlight_selected # << >> /\ processor[s].state = "idle"
          /\ change_hsv(s, value)
    \/ \E s \in {"Hue"} : run_start(s)
    \/ \E s \in {"Hue"} : run_end(s)
    \/ \E s \in {"Hue"} : on_image_processed(s)
    \/ \E s \in {"Hue"} : on_slider_end(s)

SpecClipboard == Init /\ [][NextClipboard]_vars

\* A session with the hue and the saturation slider on the cells of the
\* grid: values change, workers run and finish, and the sliders are released.
NextSliders ==
    \/ \E index \in Pointed : click_cell(index)
    \/ \E index \in Pointed, image \in CellFiles : dropEvent(index, image)
    \/ keyPressEvent
    \/ \E s \in Sliders, value \in SliderValues : change_hsv(s, value)
    \/ \E s \in Sliders : run_start(s)
    \/ \E s \in Sliders : run_end(s)
    \/ \E s \in Sliders : on_image_processed(s)
    \/ \E s \in Sliders : on_slider_end(s)

SpecSliders == Init /\ [][NextSliders]_vars

\* A session on a disk that fills up: cells are added and deleted, sheets
\* are opened, and the history is walked.
NextDisk ==
    \/ \E index \in Pointed : click_cell(index)
    \/ \E index \in Pointed, image \in CellFiles : dropEvent(index, image)
    \/ keyPressEvent
    \/ ToolbarOpen
    \/ EditUndo
    \/ EditRedo
    \/ DiskFull

SpecDisk == Init /\ [][NextDisk]_vars

\* An editing session with nearly transparent images: they are dropped on
\* the cells, cells are deleted, and the history is walked.
NextFaint ==
    \/ \E index \in Pointed : click_cell(index)
    \/ \E index \in Pointed, image \in FaintFiles : dropEvent(index, image)
    \/ keyPressEvent
    \/ EditUndo
    \/ EditRedo

SpecFaint == Init /\ [][NextFaint]_vars

\* An editing session in which the pointer also leaves the grid: cells are
\* clicked, images are dropped and items are dragged inside and beside it.
NextBounds ==
    \/ \E index \in Pointed : click_cell(index)
    \/ \E index \in Pointed, image \in CellFiles : dropEvent(index, image)
    \/ keyPressEvent
    \/ \E index_a \in Cells, pointed \in Pointed, shift \in BOOLEAN :
          mouseReleaseEvent(index_a, pointed, shift)
    \/ EditUndo

SpecBounds == Init /\ [][NextBounds]_vars

\* A session with the handlers of GraphicsView.py: a cell is selected,
\* images are added to it by double click and the Delete key is pressed.
NextIcons ==
    \/ \E index \in Pointed : click_cell(index)
    \/ \E image \in FaintFiles \cup {NullImage} :
          GraphicsView_mouseDoubleClickEvent(image)
    \/ GraphicsView_keyPressEvent

SpecIcons == Init /\ [][NextIcons]_vars

\* A session with image files of several sizes: they are added to the
\* selected cell by double click, cells are deleted and the history is walked.
NextScale ==
    \/ \E index \in Pointed : click_cell(index)
    \/ \E image \in SizedFiles : mouseDoubleClickEvent(image)
    \/ keyPressEvent
    \/ EditUndo
    \/ EditRedo

SpecScale == Init /\ [][NextScale]_vars

\* A session of SWITCH moves: images are dropped, items are dragged on
\* other cells with Shift held, the grid is cleared with the toolbar's New,
\* and the history is walked.
NextSwitch ==
    \/ \E index \in Pointed, image \in CellFiles : dropEvent(index, image)
    \/ \E index_a \in Cells, index_b \in Cells :
          mouseReleaseEvent(index_a, index_b, TRUE)
    \/ ToolbarNew
    \/ EditUndo
    \/ EditRedo

SpecSwitch == Init /\ [][NextSwitch]_vars

\* A session with the overlay layer: pictures are dropped, a weapon sheet is
\* laid over the grid, files are opened, and the history is walked.
NextOverlay ==
    \/ \E index \in Cells, image \in CellFiles : dropEvent(index, image)
    \/ \E image \in Files : item_clicked(image)
    \/ ToolbarOpen
    \/ EditUndo
    \/ EditRedo

SpecOverlay == Init /\ [][NextOverlay]_vars

\* The values of Type that make save_all_together differ.
Types == {"Icons", "Sprites"}

\* Sessions that export the grid, under either kind of configuration.
NextExport ==
    \/ \E index \in Cells : click_cell(index)
    \/ \E index \in Cells, image \in CellFiles : dropEvent(index, image)
    \/ keyPressEvent
    \/ FileSaveAll
    \/ EditUndo

SpecExport == (\E type \in Types : Start(type)) /\ [][NextExport]_vars

\* Sessions of folder loads, by the loader of grid_manager.py and by that
\* of icons.py, with the grid cleared in between.
NextFolder ==
    \/ ToolbarLoadFolder
    \/ \E files \in Folders : IconsFolder(files)
    \/ ToolbarNew

SpecFolder == Init /\ [][NextFolder]_vars

\* The conversions between pixels and indices: one call, with any pixel
\* position up to MaxPixel or any index up to MaxIndex on each axis.
NextMaths ==
    \/ \E x \in 0..MaxPixel, y \in 0..MaxPixel :
          conv = << >> /\ maths_index(x, y)
    \/ \E index \in (0..MaxIndex) \X (0..MaxIndex) :
          conv = << >> /\ maths_origin(index)

SpecMaths == Init /\ [][NextMaths]_vars

\* A session from its start to aboutToQuit: cells are added, overwritten and
\* deleted, a file is opened, the history is walked, temp files disappear,
\* and the application quits.
NextTemp ==
    \/ \E index \in Cells : ~quit /\ click_cell(index)
    \/ \E index \in Cells, image \in CellFiles : ~quit /\ dropEvent(index, image)
    \/ ~quit /\ keyPressEvent
    \/ ~quit /\ ToolbarOpen
    \/ ~quit /\ EditUndo
    \/ ~quit /\ EditRedo
    \/ \E name \in 1..MaxTemp : TempRemoved(name)
    \/ delete_temp_files

SpecTemp == Init /\ [][NextTemp]_vars

\* A drag of the hue slider over a selected cell: the slider reports one
\* value after the other while its worker runs, and is released.
NextDrag ==
    \/ \E index \in Cells : click_cell(index)
    \/ \E index \in Cells, image \in CellFiles : dropEvent(index, image)
    \/ \E value \in DragValues : change_hsv("Hue", value)
    \/ run_start("Hue")
    \/ run_end("Hue")
    \/ on_image_processed("Hue")
    \/ on_slider_end("Hue")

SpecDrag == Init /\ [][NextDrag]_vars

\* Sessions of folder loads by the loader of grid_manager.py: folders are
\* loaded one after the other, cells are selected and deleted, and the grid
\* is cleared.
NextBatch ==
    \/ \E index \in Cells : click_cell(index)
    \/ keyPressEvent
    \/ ToolbarLoadFolder
    \/ ToolbarNew

SpecBatch == Init /\ [][NextBatch]_vars

(* ------------------------------- claims ------------------------------- *)
\* A redo that directly follows an undo which popped an entry.
RedoAfterUndo == before # << >> /\ before[1].cmd = "undo" /\ EditRedo

\* C1: wherever Undo is non-empty, an undo directly followed by a redo
\* leaves every cell with the content it had before the pair.
C1_UndoRedoRestores ==
    [][RedoAfterUndo => Stored' = before[1].stored]_vars

\* The handlers that add a file, a sheet or a loaded grid.
Loading == (\E index \in Pointed, image \in Files : dropEvent(index, image))
              \/ ToolbarOpen \/ MenuOpen

\* C2: every load or add that changes what the cells hold appends one
\* entry to Undo and empties Redo, also when the grid was empty.
C2_LoadRecorded ==
    [][(Loading /\ Stored' # Stored)
          => /\ Len(undo') = Len(undo) + 1
             /\ SubSeq(undo', 1, Len(undo)) = undo
             /\ redo' = << >>]_vars

\* C8: undo and redo never fail: whatever the state, also after the grid
\* was cleared, the handler returns without raising.
C8_UndoRedoNeverFail ==
    [][(EditUndo \/ EditRedo) => raised' = "none"]_vars

\* The commands on the selected cell that store a picture through
\* add_to_grid.
Adding == paste \/ flip_image

\* C9: while a background worker is active every mutating command is
\* rejected: it changes neither the cells nor the history.
C9_MutationsRejected ==
    [][(thread_running /\ Adding)
          => Stored' = Stored /\ undo' = undo /\ redo' = redo]_vars

\* C10: while a background worker is active undo and redo are rejected:
\* they change neither the cells nor the history.
C10_UndoRedoRejected ==
    [][(thread_running /\ (EditUndo \/ EditRedo))
          => Stored' = Stored /\ undo' = undo /\ redo' = redo]_vars

\* The snapshot of what cell index holds in content: a file with its
\* picture, or None (<< >>) for an empty cell.
Snapshot(content, index) ==
    IF index \in DOMAIN content THEN <<CellImage(content[index])>> ELSE << >>

\* Cell index holds in content exactly what the snapshot temp shows.
Holds(content, index, temp) ==
    IF temp = << >> THEN index \notin DOMAIN content
    ELSE index \in DOMAIN content /\ content[index] = Crop(temp[1], <<0, 0>>)

\* The entry on top of Undo is of the given kind and was recorded for the
\* state the program is in.
UndoOf(type, move_type) ==
    /\ sync > 0
    /\ undo # << >>
    /\ Top(undo).type = type
    /\ Top(undo).move_type = move_type

\* C3: adding an image at index i records an ADD entry with a snapshot of
\* what i held before (None if it was empty), and the undo of that entry
\* leaves i holding exactly that.
C3_AddUndo ==
    [][/\ \A index \in Cells :
             (/\ index \in DOMAIN images'
              /\ highlight_selected' = highlight_selected
              /\ \A k \in Cells \ {index} : Snapshot(Stored', k) = Snapshot(Stored, k)
              /\ has_valid_pixel(CellImage(Stored'[index]))
              /\ dropEvent(index, CellImage(Stored'[index])))
                => undo' = Append(undo, Action("ADD", index,
                                               Snapshot(Stored, index), "None"))
       /\ (UndoOf("ADD", "None") /\ EditUndo)
             => Holds(Stored', Top(undo).index[1], Top(undo).temp)]_vars

\* C4: removing the image of index i leaves i empty and records a DELETE
\* entry with a snapshot of that image, and the undo of that entry puts the
\* same image back at i.
C4_DeleteUndo ==
    [][/\ (/\ highlight_selected # << >>
           /\ highlight_selected[1] \in DOMAIN images
           /\ keyPressEvent)
             => /\ highlight_selected[1] \notin DOMAIN images'
                /\ undo' = Append(undo, Action("DELETE", highlight_selected[1],
                                               Snapshot(Stored, highlight_selected[1]),
                                               "None"))
       /\ (UndoOf("DELETE", "None") /\ Top(undo).temp # << >> /\ EditUndo)
             => Holds(Stored', Top(undo).index[1], Top(undo).temp)]_vars

\* C5: an OVERWRITE move of the occupied cell A to B leaves A empty and B
\* holding what A held, and records one MOVE/OVERWRITE entry with a
\* snapshot of what B held (None if it was empty); the undo of that entry
\* leaves A holding what was moved and B holding the snapshot.
C5_OverwriteUndo ==
    [][/\ \A index_a \in Cells, index_b \in Cells :
             (/\ index_a \in DOMAIN images
              /\ highlight_selected' = highlight_selected
              /\ mouseReleaseEvent(index_a, index_b, FALSE))
                => /\ index_a \notin DOMAIN images'
                   /\ Holds(Stored', index_b, Snapshot(Stored, index_a))
                   /\ undo' = Append(undo, Action("MOVE", <<index_a, index_b>>,
                                                  Snapshot(Stored, index_b), "OVERWRITE"))
       /\ (UndoOf("MOVE", "OVERWRITE") /\ EditUndo)
             => /\ Holds(Stored', Top(undo).index[1],
                         Snapshot(Stored, Top(undo).index[2]))
                /\ Holds(Stored', Top(undo).index[2], Top(undo).temp)]_vars

\* C6: a SWITCH move of the occupied cell A with B, occupied or empty, is
\* undone by the same move again and by undo: the cells hold what they held
\* before the first move.
C6_SwitchSelfInverse ==
    [][(/\ before # << >>
        /\ before[1].cmd = "switch"
        /\ \/ EditUndo
           \/ mouseReleaseEvent(before[1].index[1], before[1].index[2], TRUE))
          => Stored' = before[1].stored]_vars

\* C7: replacing the whole grid while it holds S1 records one OVERHAUL entry
\* with a snapshot of all of S1; the undo of that entry makes the cells hold
\* exactly S1, and the redo that follows makes them hold exactly what the
\* replacement had produced.
C7_OverhaulRoundTrip ==
    [][/\ (DOMAIN images # {} /\ Stored' # Stored /\ ToolbarOpen)
             => /\ undo' = Append(undo, Top(undo'))
                /\ Top(undo').type = "OVERHAUL"
                /\ Top(undo').temp # << >>
                /\ Top(undo').temp[1].tiles = Stored
       /\ (UndoOf("OVERHAUL", "None") /\ EditUndo)
             => /\ Top(undo).temp # << >>
                /\ Stored' = Top(undo).temp[1].tiles
       /\ (RedoAfterUndo /\ redo # << >> /\ Top(redo).type = "OVERHAUL")
             => Stored' = before[1].stored]_vars

\* The last handler was an undo that popped an entry of the given kind.
Undone(type, move_type) ==
    /\ before # << >>
    /\ before[1].cmd = "undo"
    /\ raised = "none"
    /\ redo # << >>
    /\ Top(redo).type = type
    /\ Top(redo).move_type = move_type

\* Two adds at one cell were undone one after the other: the cell is empty
\* again and Redo holds the two different pictures.
C3_Witness ==
    /\ Undone("ADD", "None")
    /\ Len(redo) = 2
    /\ redo[1].type = "ADD"
    /\ redo[1].index = redo[2].index
    /\ redo[1].temp # << >>
    /\ redo[2].temp # << >>
    /\ redo[1].temp # redo[2].temp
    /\ redo[1].index[1] \notin DOMAIN images

\* The undo of a DELETE has put a picture back into a cell that was empty.
C4_Witness ==
    /\ Undone("DELETE", "None")
    /\ Top(redo).index[1] \notin DOMAIN before[1].stored
    /\ Top(redo).index[1] \in DOMAIN images

\* The undo of an OVERWRITE move has put the moved picture back into A and
\* the overwritten, different picture back into B.
C5_Witness ==
    /\ Undone("MOVE", "OVERWRITE")
    /\ Top(redo).index[1] \notin DOMAIN before[1].stored
    /\ Top(redo).index[1] \in DOMAIN images
    /\ Top(redo).index[2] \in DOMAIN images
    /\ Stored[Top(redo).index[1]] = before[1].stored[Top(redo).index[2]]
    /\ Stored[Top(redo).index[1]] # Stored[Top(redo).index[2]]

\* The workers that have been started and whose run() has not returned.
Running == {s \in Sliders : processor[s].state \in {"started", "running"}}

\* C11: at any time at most one transform worker is running, whichever
\* slider started it: a value change on a slider while a worker is running
\* starts no second worker.
C11_OneWorker == Cardinality(Running) <= 1

\* A step of a slider's interaction other than its release: a value
\* change, the worker's run, the delivery of its result.
Dragging ==
    \E s \in Sliders :
       \/ \E value \in SliderValues : change_hsv(s, value)
       \/ run_start(s)
       \/ run_end(s)
       \/ on_image_processed(s)

\* The release of slider s on a selected occupied cell, after at least one
\* value change whose worker has produced its result.
Release(s) ==
    /\ modified_images # << >> \/ processor[s].emitted # << >>
    /\ highlight_selected # << >>
    /\ highlight_selected[1] \in DOMAIN images
    /\ on_slider_end(s)

\* C12: one slider interaction on a selected occupied cell pushes exactly
\* one Action onto Undo, at the release; a value change, a worker's run and
\* the delivery of an intermediate result push no Action and leave the
\* cells as they are.
C12_OneActionAtRelease ==
    [][/\ Dragging => undo' = undo /\ redo' = redo /\ Stored' = Stored
       /\ \A s \in Sliders :
             Release(s) =>
                /\ undo' = Append(undo, Action("ADD", highlight_selected[1],
                                               Snapshot(Stored, highlight_selected[1]),
                                               "None"))
                /\ redo' = << >>
                /\ Stored' = [Stored EXCEPT ![highlight_selected[1]] =
                                 Top(modified_images).pixmap]]_vars

\* C13: when the snapshot cannot be written, the handler still pushes its
\* Action onto Undo, and the Action's snapshot is None: it never refers to a
\* file that holds no image.
C13_FailedSnapshotIsNone ==
    [][(disk_full /\ Len(undo') = Len(undo) + 1)
          => Top(undo').temp = << >>]_vars

\* C14: adding an image whose every pixel is below the alpha threshold
\* changes nothing: the cell keeps what it held, so do the other cells, no
\* Action is pushed onto Undo and Redo is not cleared.
C14_EmptyAddIsNoOp ==
    [][\A index \in Cells, pic \in {0, Dim} :
          dropEvent(index, CellImage(pic))
             => Stored' = Stored /\ undo' = undo /\ redo' = redo]_vars

\* An occupied cell, an empty cell and a Redo entry, where such an add finds
\* something to destroy and leaves it.
C14_Witness ==
    /\ ~thread_running
    /\ before = << >>
    /\ redo # << >>
    /\ undo # << >>
    /\ DOMAIN images # {}
    /\ DOMAIN images # Cells
    /\ highlight_selected # << >>

\* C18: an image is empty exactly when it has no pixel with alpha >= 25: an
\* image whose highest alpha is exactly 25 is accepted by add and staged to
\* a snapshot when it is replaced, and one whose highest alpha is 24 is
\* rejected.
C18_ThresholdIs25 ==
    [][\A index \in Cells :
          /\ dropEvent(index, CellImage(Faint))
                => /\ index \in DOMAIN Stored'
                   /\ Stored'[index] = Faint
                   /\ Len(undo') = Len(undo) + 1
          /\ dropEvent(index, CellImage(Dim))
                => Stored' = Stored /\ undo' = undo
          /\ (/\ index \in DOMAIN Stored
              /\ Stored[index] = Faint
              /\ dropEvent(index, CellImage(1)))
                => Top(undo').temp = <<CellImage(Faint)>>]_vars

\* A handler called with the pointer at a place outside the grid.
Outside(index) ==
    \/ \E image \in CellFiles : dropEvent(index, image)
    \/ \E index_a \in Cells, shift \in BOOLEAN :
          mouseReleaseEvent(index_a, index, shift)

\* C15: add, remove and move with an index outside the grid are silent
\* no-ops: the cells, Undo and Redo are unchanged and no error is raised.
C15_OutsideIsNoOp ==
    [][\A index \in Pointed \ Cells :
          Outside(index)
             => Stored' = Stored /\ undo' = undo /\ redo' = redo
                /\ raised' = "none"]_vars

\* The Delete key on a selected cell that holds nothing, with either view.
DeleteOnEmpty ==
    /\ highlight_selected # << >>
    /\ highlight_selected[1] \notin DOMAIN images
    /\ keyPressEvent \/ GraphicsView_keyPressEvent

\* C16: remove on an empty index, as by the Delete key on an empty selected
\* cell, is a no-op: the cells are unchanged, no Action is pushed onto Undo
\* and Redo is not cleared.
C16_RemoveEmptyIsNoOp ==
    [][DeleteOnEmpty
          => Stored' = Stored /\ undo' = undo /\ redo' = redo]_vars

\* C17: after add(i, img) for a source image of any width and height the
\* image stored at i is at most cell_width wide and cell_height high; each
\* side is capped by itself, and a side that fits keeps its length.
C17_AxesCappedIndependently ==
    [][\A image \in SizedFiles :
          (highlight_selected # << >> /\ mouseDoubleClickEvent(image))
             => /\ drawn' = <<[width |-> Min(image.width, cell_width),
                               height |-> Min(image.height, cell_height)]>>
                /\ highlight_selected[1] \in DOMAIN Stored'
                /\ Stored'[highlight_selected[1]] = 1]_vars

\* An image wider than a cell and lower than a cell was added: its width
\* was capped and its height kept.
C17_Witness ==
    /\ drawn = <<[width |-> cell_width, height |-> cell_height \div 2]>>
    /\ undo # << >>
    /\ Top(undo).type = "ADD"
    /\ Top(undo).index[1] \in DOMAIN images

\* The handler moved the top Action of stack from onto stack to: to gained
\* one Action of the same kind and the same index, and nothing else moved.
Moved(from, to, from1, to1) ==
    /\ from1 = Pop(from)
    /\ Len(to1) = Len(to) + 1
    /\ Pop(to1) = to
    /\ Top(to1).type = Top(from).type
    /\ Top(to1).move_type = Top(from).move_type
    /\ Top(to1).index = Top(from).index

\* C19: undo() on a non-empty Undo removes exactly its top Action and pushes
\* exactly one Action of the same kind and index onto Redo, and redo() does
\* the symmetric; with its source stack empty the call changes neither
\* stack nor the cells.  So |Undo| + |Redo| is the same after every call.
C19_HistoryConserved ==
    [][/\ EditUndo =>
             IF undo = << >>
             THEN undo' = undo /\ redo' = redo /\ Stored' = Stored
             ELSE Moved(undo, redo, undo', redo')
       /\ EditRedo =>
             IF redo = << >>
             THEN undo' = undo /\ redo' = redo /\ Stored' = Stored
             ELSE Moved(redo, undo, redo', undo')]_vars

\* The top Action of stack is a SWITCH of two indices that both hold
\* nothing.
EmptySwitch(stack) ==
    /\ stack # << >>
    /\ Top(stack).type = "MOVE"
    /\ Top(stack).move_type = "SWITCH"
    /\ Top(stack).index[1] \notin DOMAIN images
    /\ Top(stack).index[2] \notin DOMAIN images

\* C20: a SWITCH Action whose two indices are both empty is a no-op on the
\* cells when it is applied and when it is undone: no index becomes
\* occupied and no error is raised.
C20_EmptySwitchIsNoOp ==
    [][/\ (EmptySwitch(undo) /\ EditUndo)
             => DOMAIN images' = DOMAIN images /\ raised' = "none"
       /\ (EmptySwitch(redo) /\ EditRedo)
             => DOMAIN images' = DOMAIN images /\ raised' = "none"]_vars


\* The picture of the whole grid: grid_col cells wide, max_row + 1 cells
\* high, showing exactly what the cells of content hold.
FullGrid(content) ==
    <<[width |-> grid_col * cell_width,
       height |-> (SetMax({k[2] : k \in DOMAIN content}) + 1) * cell_height,
       tiles |-> content]>>

\* C21: the snapshot recorded with an OVERHAUL entry, by a replacement of the
\* whole grid and by the undo or redo of an OVERHAUL, is grid_col cells wide
\* and max_row + 1 cells high and shows exactly the occupied cells, each at
\* its origin, and nothing else.
C21_SnapshotIsOccupiedCells ==
    [][/\ (/\ DOMAIN images # {}
           /\ Len(undo') = Len(undo) + 1
           /\ Top(undo').type = "OVERHAUL")
             => Top(undo').temp = FullGrid(Stored)
       /\ (/\ DOMAIN images # {}
           /\ Len(redo') = Len(redo) + 1
           /\ Top(redo').type = "OVERHAUL")
             => Top(redo').temp = FullGrid(Stored)]_vars

\* C22: the file of a single-file export holds a bitmap that is at least
\* max_row + 1 cells high, whatever the type of the configuration, and shows
\* every occupied cell at its origin: the lowest occupied row is not cut off.
C22_ExportHoldsEveryCell ==
    exported # << >>
        => /\ exported[1].height >= (max_row(App) + 1) * cell_height
           /\ \A k \in DOMAIN images :
                 k \in DOMAIN exported[1].tiles /\ exported[1].tiles[k] = Stored[k]

\* The folders whose images all have pixels.
FullFolders == {f \in Folders : Len(f) > 0 /\ \A n \in 1..Len(f) : f[n] # 0}

\* The cell the k-th file of a folder belongs in, k counted from 0: row-major
\* from column 0 of the row below the lowest occupied one.
CellOf(k) == <<k % grid_col, max_row(App) + 1 + k \div grid_col>>

\* The cells a folder fills, each with the picture of its file.
Filled(files) ==
    [c \in {CellOf(n - 1) : n \in 1..Len(files)} |->
        files[CHOOSE n \in 1..Len(files) : CellOf(n - 1) = c]]

\* C23: a folder load of n images that all have pixels, taken in sorted
\* order, puts the k-th image (k = 0..n-1) in cell (k mod grid_col,
\* max_row + 1 + k div grid_col) and changes no other cell; stated for the
\* folders whose last cell lies in a row the loaders admit.
C23_FolderFillsRowMajor ==
    [][\A files \in FullFolders :
          (/\ CellOf(Len(files) - 1)[2] <= grid_row + 1
           /\ (LoadFolder(files) \/ IconsFolder(files)))
             => Stored' = Filled(files) @@ Stored]_vars

\* C24: the conversions are exact inverses: the index of the origin of an
\* index is that index, and a pixel position lies in the cell of its index,
\* from the cell's origin up to one cell size further, on each axis.
C24_ConversionsInverse ==
    conv # << >>
        => IF conv[1].fn = "origin"
           THEN cell_index(conv[1].ret[1], conv[1].ret[2]) = conv[1].arg
           ELSE LET o == cell_origin(conv[1].ret)
                    p == conv[1].arg
                IN /\ o[1] <= p[1] /\ p[1] < o[1] + cell_width
                   /\ o[2] <= p[2] /\ p[2] < o[2] + cell_height

\* A pixel in the lower right corner of a cell has been converted.
C24_Witness ==
    /\ conv # << >>
    /\ conv[1].fn = "index"
    /\ conv[1].arg = <<2 * cell_width - 1, 3 * cell_height - 1>>
    /\ conv[1].ret = <<1, 2>>

C26_ItemsAtTheirCell ==
    \A k \in DOMAIN images : items[images[k]].pos = cell_origin(k)

\* C27: from the start of a worker until its run() has returned
\* app.thread_running is true, and no handler, such as the release of
\* another slider, clears it in between.
C27_GuardCoversWorker == Running # {} => thread_running

\* C28: app.thread_running is true only while a worker is running: a worker
\* that has finished, or that returned at once because the selected cell is
\* empty, leaves no guard behind when no release follows.
C28_GuardOnlyWhileRunning == thread_running => Running # {}

\* The release of slider s that commits a result: a cell is selected and
\* app.modified_images holds an item.
Commit(s) ==
    /\ modified_images # << >>
    /\ highlight_selected # << >>
    /\ on_slider_end(s)

\* C29: the release commits the result to the cell whose content the worker
\* read: the index add_to_grid is given is the index the worker processed,
\* whatever was done between the start of the worker and the release.
C29_CommitWhereRead ==
    [][\A s \in Sliders :
          Commit(s) => highlight_selected = Top(modified_images).index]_vars

\* C30: the image committed at the release is the transform for the last
\* value the slider reported before it: no value change is lost because a
\* worker was still running when it arrived.
C30_CommitLastValue ==
    [][\A s \in Sliders :
          Commit(s) => Top(modified_images).value = slider[s]]_vars

\* C31: every index of app.images lies in the grid, 0 <= column < grid_col
\* and 0 <= row < grid_row, in every state the commands lead to; a folder
\* load with more images than the grid has room for puts none in a row
\* from grid_row on.
C31_OccupiedInBounds == DOMAIN images \subseteq Cells

\* C32: a New command that empties app.images, the toolbar New or the
\* File > New answered with Yes, leaves app.undo and app.redo empty as
\* well, so that undo and redo find nothing to pop; File > New answered
\* with No leaves app.images, app.undo and app.redo as they were.
C32_NewClearsHistory ==
    [][/\ ((ToolbarNew \/ MenuNewAnswered("&Yes"))
            /\ DOMAIN images # {} /\ DOMAIN images' = {})
           => undo' = << >> /\ redo' = << >>
       /\ MenuNewAnswered("&No") => UNCHANGED <<images, undo, redo>>]_vars

=============================================================================
